---- MODULE Spec2Model ----
(***************************************************************************)
(* cargo-nuget: `nuget install` (src/main.rs).                             *)
(*                                                                         *)
(* Install::perform reads Cargo.toml, extracts the NuGet dependencies      *)
(* from package.metadata.nuget_dependencies (get_deps), downloads all of   *)
(* them concurrently (download_dependencies / Dependency::download /       *)
(* try_download), selects the .winmd entries of every downloaded archive   *)
(* (DownloadedDependency::winmds) and writes them to target/nuget/<name>/  *)
(* (Winmd::write).                                                         *)
(*                                                                         *)
(* Three specifications share the actions below:                           *)
(*   Spec          the whole of Install::perform                           *)
(*   SpecGetDeps   get_deps applied to every bounded dependency table      *)
(*   SpecWinmds    winmds applied to every bounded archive                 *)
(***************************************************************************)
EXTENDS Integers, Sequences, FiniteSets, TLC

\* ------------------------------------------------------------------ bounds

\* Dependencies declared in a manifest of the whole-pipeline specification.
MaxDeps == 2
\* Entries of a dependency table given to get_deps in SpecGetDeps.
MaxTable == 3
\* Longest run of consecutive redirects the registry is prepared to answer.
MaxChain == 6
\* Entries of an archive given to winmds in SpecWinmds.
MaxEntries == 3

\* ------------------------------------------------------- program constants

\* try_download(self.url(), 5)
RedirectBudget == 5

\* Option<T>
None == [type |-> "None"]
Some(v) == [type |-> "Some", v |-> v]

\* ------------------------------------------------------------- the manifest

\* Keys of a toml table are iterated in ascending order (a BTreeMap); KeyOrder
\* lists the keys the model uses in that order.
KeyOrder == <<"", "Acme.Gadgets", "Acme.Widgets", "Contoso.Core", "Fabrikam.Ui">>

\* The keys at positions a..b of KeyOrder.
KeysBetween(a, b) == {KeyOrder[i] : i \in {j \in a..b : j <= Len(KeyOrder)}}

TomlString(s) == [type |-> "String", s |-> s]
TomlInteger(n) == [type |-> "Integer", n |-> n]
TomlTable(entries) == [type |-> "Table", entries |-> entries]

\* The entries of the table holding f (a function from keys to values), in
\* iteration order.
Entries(f) ==
    LET ks == SelectSeq(KeyOrder, LAMBDA k : k \in DOMAIN f)
    IN  [i \in 1..Len(ks) |-> <<ks[i], f[ks[i]]>>]

TablesOver(keys, values) ==
    {TomlTable(Entries(f)) : f \in UNION {[S -> values] : S \in SUBSET keys}}

\* t.remove(key) on a table's entries: the value stored under key, if any.
Lookup(entries, key) ==
    IF \E i \in 1..Len(entries) : entries[i][1] = key
    THEN entries[CHOOSE i \in 1..Len(entries) : entries[i][1] = key][2]
    ELSE None

\* Result<T, Error>, and the unwinding of a panic (an unwrap() of None or Err).
Ok(v) == [tag |-> "Ok", val |-> v]
Err(e) == [tag |-> "Err", err |-> e]
Panic(at) == [tag |-> "Panic", at |-> at]

NoCargoToml == [kind |-> "NoCargoToml"]
MalformedManifest == [kind |-> "MalformedManifest"]
DownloadError(cause) == [kind |-> "DownloadError", cause |-> cause]
Other(cause) == [kind |-> "Other", cause |-> cause]

\* What Cargo.toml can be: absent, bytes that are no manifest, or a manifest
\* whose package section, metadata value and nuget_dependencies value are each
\* absent or of any shape.
Package(metadata) == [type |-> "Package", metadata |-> metadata]
Manifest(package) == [type |-> "Manifest", package |-> package]
MissingFile == [type |-> "Missing"]
FileOf(parsed) == [type |-> "Bytes", parsed |-> parsed]

MetadataWith(deps) == TomlTable(<<<<"nuget_dependencies", deps>>>>)

\* Manifests whose nuget_dependencies is one of the given tables.
ManifestsWith(tables) == {Manifest(Package(MetadataWith(t))) : t \in tables}

\* Manifests get_deps rejects for a missing or mis-shaped table.
ShapelessManifests ==
    { Manifest(None),
      Manifest(Package(None)),
      Manifest(Package(TomlString("nuget"))),
      Manifest(Package(TomlTable(<<>>))),
      Manifest(Package(TomlTable(<<<<"docs", TomlString("rs")>>>>))),
      Manifest(Package(MetadataWith(TomlString("1.0")))) }

\* Dependency::new
Dependency(name, version) == [name |-> name, version |-> version]

\* The closure with name and version swapped.
MapEntrySwapped(entry) ==
    IF entry[2].type = "String"
    THEN Ok(Dependency(entry[2].s, entry[1]))
    ELSE Err(MalformedManifest)

\* The closure of get_deps applied to one (key, value) entry.
MapEntry(entry) ==
    IF entry[2].type = "String"
    THEN Ok(Dependency(entry[1], entry[2].s))
    ELSE Err(MalformedManifest)

\* A collect that skips the entries that are Err.
RECURSIVE CollectSkipping(_, _)
CollectSkipping(entries, acc) ==
    IF entries = <<>> THEN Ok(acc)
    ELSE LET r == MapEntry(Head(entries))
         IN  IF r.tag = "Ok" THEN CollectSkipping(Tail(entries), Append(acc, r.val))
             ELSE CollectSkipping(Tail(entries), acc)

\* Iterator::collect into Result<Vec<_>, _>: the items in order up to the
\* first Err, which is returned alone; the whole vector when there is none.
RECURSIVE Collect(_, _)
Collect(entries, acc) ==
    IF entries = <<>> THEN Ok(acc)
    ELSE LET r == MapEntry(Head(entries))
         IN  IF r.tag = "Ok" THEN Collect(Tail(entries), Append(acc, r.val))
             ELSE r

\* get_deps(manifest): manifest.package.and_then(|p| p.metadata)
get_deps(manifest) ==
    LET metadata == IF manifest.package.type = "None" THEN None
                    ELSE manifest.package.metadata
    IN  IF metadata.type = "Table"
        THEN LET deps == Lookup(metadata.entries, "nuget_dependencies")
             IN  IF deps.type = "Table" THEN Collect(deps.entries, <<>>)
                 ELSE Err(MalformedManifest)
        ELSE Err(MalformedManifest)

\* ------------------------------------------------------------- the registry

\* Dependency::url: format!("https://www.nuget.org/api/v2/package/{}/{}", ..)
url(dep) == <<"https://www.nuget.org/api/v2/package/", dep.name, "/", dep.version>>

\* The Location the registry names when it redirects a request for u.
Location(u) == Append(u, "?redirected")

\* The dependency a URL of the registry stands for: the (name, version) of the
\* package URL the chain of redirects started from.
Origin(u) == Dependency(u[2], u[4])

\* What a GET can come back with: a transport error (reqwest::get fails), or
\* a response with a status, perhaps a Location header, and a body that
\* res.bytes() either reads or fails to read.
TransportError == [type |-> "TransportError"]
Response(status, location, body) ==
    [type |-> "Response", status |-> status, location |-> location, body |-> body]

UnreadableBody == [type |-> "UnreadableBody"]

\* --------------------------------------------------------------- archives

\* std::path::MAIN_SEPARATOR of the platform the program is built for.
MAIN_SEPARATOR(os) == IF os = "windows" THEN "\\" ELSE "/"

\* A path is the sequence of its components; as a string (Path::to_str) the
\* components are joined by the separator.
RECURSIVE JoinPath(_, _)
JoinPath(comps, sep) ==
    IF comps = <<>> THEN <<>>
    ELSE IF Len(comps) = 1 THEN comps
    ELSE <<Head(comps), sep>> \o JoinPath(Tail(comps), sep)

\* The literal "lib\\uap10.0" of winmds.
WinmdDir == <<"lib", "\\", "uap10.0">>

\* A file name is <<stem>> or <<stem, extension>>.
Extension(file) == IF Len(file) = 2 THEN Some(file[2]) ELSE None

\* An archive entry: the directories and file name of its stored name, whether
\* its local header can be opened (zip.by_index), and its contents, which
\* read_to_end either yields or fails on.
Entry(dirs, file, header, data) ==
    [dirs |-> dirs, file |-> file, header |-> header, data |-> data]

CorruptData == [type |-> "Corrupt"]
Data(bytes) == [type |-> "Data", bytes |-> bytes]

NotAnArchive == [type |-> "NotAnArchive"]
Archive(entries) == [type |-> "Zip", entries |-> entries]

\* file.sanitized_name(): the entry's name as a path of the platform, both
\* separators of the stored name turned into the platform's own.
sanitized_name(entry, os) ==
    [sep |-> MAIN_SEPARATOR(os), dirs |-> entry.dirs, file |-> entry.file]

\* path.parent().and_then(Path::to_str)
Parent(path) == JoinPath(path.dirs, path.sep)

Winmd(name, contents) == [name |-> name, contents |-> contents]

\* The guard of the match arm of winmds that selects an entry.
Selected(path) ==
    /\ Extension(path.file).type = "Some"
    /\ Extension(path.file).v = "winmd"
    /\ Parent(path) = WinmdDir

\* The loop of winmds over the entries, from entry i on, with the files
\* pushed so far.
RECURSIVE WinmdsFrom(_, _, _, _)
WinmdsFrom(entries, i, acc, os) ==
    IF i > Len(entries) THEN Ok(acc)
    ELSE IF ~entries[i].header THEN Panic("zip.by_index(i).unwrap()")
    ELSE LET path == sanitized_name(entries[i], os)
         IN  IF Selected(path)
             THEN IF entries[i].data.type = "Data"
                  THEN WinmdsFrom(entries, i + 1,
                           Append(acc, Winmd(path.file, entries[i].data.bytes)), os)
                  ELSE WinmdsFrom(entries, i + 1, acc, os)
             ELSE WinmdsFrom(entries, i + 1, acc, os)

\* DownloadedDependency::winmds
winmds(bytes, os) ==
    IF bytes.type = "Zip" THEN WinmdsFrom(bytes.entries, 1, <<>>, os)
    ELSE Err(Other("ZipError"))

\* ------------------------------------------------------------ the file system

\* PathBuf::join: joining the empty string leaves the path as it is.
Join(path, name) == IF name = "" THEN path ELSE Append(path, name)

\* PathBuf::new().join("target").join("nuget").join(dep.dependency.name)
dep_directory(dep) == Join(<<"target", "nuget">>, dep.name)

\* std::fs::create_dir_all(path): the directory and its missing parents.
create_dir_all(dirs, path) == dirs \cup {SubSeq(path, 1, n) : n \in 1..Len(path)}

\* A write that appends to a file that exists already.
fs_write_append(files, path, contents) ==
    [q \in DOMAIN files \cup {path} |->
        IF q # path THEN files[q]
        ELSE IF path \in DOMAIN files THEN files[path] \o contents
        ELSE contents]

\* std::fs::write(path, contents): creates the file or replaces its contents.
fs_write(files, path, contents) ==
    [q \in DOMAIN files \cup {path} |-> IF q = path THEN contents ELSE files[q]]

\* ------------------------------------------------------------------- state

VARIABLES
    os,               \* the platform of the build: "windows" or "unix"
    cargo_toml,       \* the file Cargo.toml of the working directory
    pc,               \* where Install::perform stands
    deps,             \* let deps = get_deps(manifest)?
    fut,              \* the futures of download_dependencies, one per dependency
    gets,             \* the URLs a GET request was sent to so far
    downloaded_deps,  \* let downloaded_deps = download_dependencies(deps)?
    cur,              \* the index of `dep` in the loop over downloaded_deps
    winmd_files,      \* let winmds = dep.winmds()?
    widx,             \* the index of `winmd` in the loop over winmds
    dirs,             \* the directories of the file system
    files,            \* the files of the file system: path -> contents
    fs_log,           \* the file-system operations of this run, in order
    result,           \* what perform returned (or the panic that ended it)
    failures          \* the downloads that returned Err, in the order they did

vars == <<os, cargo_toml, pc, deps, fut, gets, downloaded_deps, cur,
          winmd_files, widx, dirs, files, fs_log, result, failures>>

Platforms == {"windows", "unix"}

Futures == 1..Len(deps)

\* ------------------------------------------------------------ the downloads

\* The archives the registry serves in the whole-pipeline specification, for
\* the package a URL stands for: bytes that are no archive, an archive with
\* two selected entries among others, and an archive with an entry whose
\* local header is damaged.
SampleArchive(dep) ==
    Archive(<< Entry(<<"lib", "uap10.0">>, <<"foo", "winmd">>, TRUE, Data(<<dep, "foo">>)),
               Entry(<<"lib", "uap10.0">>, <<"bar", "dll">>, TRUE, Data(<<dep, "bar">>)),
               Entry(<<"other">>, <<"foo", "winmd">>, TRUE, Data(<<dep, "other">>)),
               Entry(<<"lib", "uap10.0">>, <<"baz", "winmd">>, TRUE, Data(<<dep, "baz">>)) >>)

DamagedArchive(dep) ==
    Archive(<< Entry(<<"lib", "uap10.0">>, <<"foo", "winmd">>, FALSE, CorruptData) >>)

Bodies(u) == {NotAnArchive, SampleArchive(Origin(u)), DamagedArchive(Origin(u))}

\* Statuses other than 200 and 302.
OtherStatuses == {404, 500}

\* The redirects a URL has behind it.
Hops(u) == Len(u) - Len(url(Dependency("", "")))

\* A future of download_dependencies: `redirects` is the number of consecutive
\* redirects (302 with a Location) the registry answers this dependency's
\* requests with before it answers anything else.
Future(st, u, left, redirects, resp, bytes, err) ==
    [st |-> st, url |-> u, left |-> left, redirects |-> redirects,
     resp |-> resp, bytes |-> bytes, err |-> err]

Unpolled == Future("unpolled", <<>>, 0, 0, None, None, None)

Pending(f) == [tag |-> "Pending", val |-> f]

\* The runs of consecutive redirects the registry answers a dependency's
\* requests with: none, one, as many as the budget, one less, and more.
RedirectRuns == {0, 1, RedirectBudget - 1, RedirectBudget} \cup {MaxChain}

\* What the registry can answer the request future f is awaiting.
Answers(f) ==
    IF Hops(f.url) < f.redirects
    THEN {Response(302, Some(Location(f.url)), None)}
    ELSE {Response(200, None, b) : b \in Bodies(f.url) \cup {UnreadableBody}}
         \cup {Response(st, None, None) : st \in OtherStatuses}
         \cup {Response(302, None, None), TransportError}

\* The causes of a DownloadError: the two anyhow! messages of try_download
\* (the second formats the status) and the error reqwest reports (which knows
\* the URL of its request).
TooManyRedirects == [msg |-> "Too many redirects"]
NonSuccessful(status) == [msg |-> "Non-successful response", status |-> status]
ReqwestError(u) == [msg |-> "reqwest::Error", url |-> u]

\* try_download with the budget check off by one (recursion_amount <= 1).
try_download_off_by_one(f, u, recursion_amount) ==
    IF recursion_amount <= 1
    THEN Err(DownloadError(TooManyRedirects))
    ELSE Pending([f EXCEPT !.st = "awaiting", !.url = u,
                           !.left = recursion_amount, !.resp = None])

\* try_download without the budget check.
try_download_unbounded(f, u, recursion_amount) ==
    Pending([f EXCEPT !.st = "awaiting", !.url = u,
                      !.left = recursion_amount, !.resp = None])

\* try_download(url, recursion_amount) up to reqwest::get(&url).await: the
\* budget check, then the request.
try_download(f, u, recursion_amount) ==
    IF recursion_amount = 0
    THEN Err(DownloadError(TooManyRedirects))
    ELSE Pending([f EXCEPT !.st = "awaiting", !.url = u,
                           !.left = recursion_amount, !.resp = None])

\* try_download from the answer to its request on: the match on the status.
on_response(f, res) ==
    IF res.type = "TransportError"
    THEN Err(DownloadError(ReqwestError(f.url)))
    ELSE IF res.status = 200
    THEN IF res.body.type = "UnreadableBody"
         THEN Err(DownloadError(ReqwestError(f.url)))
         ELSE Ok(res.body)
    ELSE IF res.status = 302
    THEN IF res.location.type = "None"
         THEN Panic("headers.get(\"Location\").unwrap()")
         ELSE try_download(f, res.location.v, f.left - 1)
    ELSE Err(DownloadError(NonSuccessful(res.status)))

DownloadedDependency(dependency, bytes) == [dependency |-> dependency, bytes |-> bytes]

\* Future i after its poll came back with o.
Polled(f, o) ==
    IF o.tag = "Pending" THEN o.val
    ELSE IF o.tag = "Ok" THEN [f EXCEPT !.st = "ready", !.bytes = o.val]
    ELSE IF o.tag = "Err" THEN [f EXCEPT !.st = "failed", !.err = o.err]
    ELSE [f EXCEPT !.st = "panicked"]

\* The future of one dependency in download_dependencies: the bytes of
\* dep.download() paired with dep.
download(dep, f) == DownloadedDependency(dep, f.bytes)

\* A join that drops the futures that failed and is ready with the others.
join_successful(ds, futs, i, o) ==
    LET fs == [futs EXCEPT ![i] = Polled(@, o)]
        ready == SelectSeq([j \in DOMAIN fs |-> j], LAMBDA j : fs[j].st = "ready")
    IN  [futs |-> fs,
         out |-> IF o.tag = "Panic" THEN o
                 ELSE IF \A j \in DOMAIN fs : fs[j].st \in {"ready", "failed"}
                 THEN Ok([k \in 1..Len(ready) |-> download(ds[ready[k]], fs[ready[k]])])
                 ELSE Pending(fs)]

\* A join that lets every future finish and fails with the error of the
\* failed future of the highest index.
join_all_then_fail(ds, futs, i, o) ==
    LET fs == [futs EXCEPT ![i] = Polled(@, o)]
        bad == {j \in DOMAIN fs : fs[j].st = "failed"}
    IN  [futs |-> fs,
         out |-> IF o.tag = "Panic" THEN o
                 ELSE IF \E j \in DOMAIN fs : fs[j].st \notin {"ready", "failed"}
                 THEN Pending(fs)
                 ELSE IF bad = {}
                 THEN Ok([j \in DOMAIN fs |-> download(ds[j], fs[j])])
                 ELSE Err(fs[CHOOSE j \in bad : \A k \in bad : k <= j].err)]

\* A join that is ready as soon as one future is, with the outputs of the
\* futures that are ready by then.
join_first_ready(ds, futs, i, o) ==
    LET fs == [futs EXCEPT ![i] = Polled(@, o)]
        ready == SelectSeq([j \in DOMAIN fs |-> j], LAMBDA j : fs[j].st = "ready")
    IN  [futs |-> fs,
         out |-> IF o.tag \in {"Err", "Panic"} THEN o
                 ELSE IF ready # <<>>
                 THEN Ok([k \in 1..Len(ready) |-> download(ds[ready[k]], fs[ready[k]])])
                 ELSE Pending(fs)]

\* A join that hands out the outputs in the reverse of the order of the
\* futures.
join_reversed(ds, futs, i, o) ==
    LET fs == [futs EXCEPT ![i] = Polled(@, o)]
    IN  [futs |-> fs,
         out |-> IF o.tag \in {"Err", "Panic"} THEN o
                 ELSE IF \A j \in DOMAIN fs : fs[j].st = "ready"
                 THEN Ok([j \in DOMAIN fs |-> download(ds[j], fs[Len(fs) + 1 - j])])
                 ELSE Pending(fs)]

\* futures::future::try_join_all(results), when future i has been polled and
\* came back with o: it fails as soon as one future fails, and is ready with
\* the outputs in the order of the futures once every one is ready. The
\* result holds the futures (futs) and what the join came back with (out).
try_join_all(ds, futs, i, o) ==
    LET fs == [futs EXCEPT ![i] = Polled(@, o)]
    IN  [futs |-> fs,
         out |-> IF o.tag \in {"Err", "Panic"} THEN o
                 ELSE IF \A j \in DOMAIN fs : fs[j].st = "ready"
                 THEN Ok([j \in DOMAIN fs |-> download(ds[j], fs[j])])
                 ELSE Pending(fs)]

\* ------------------------------------------------------------------ actions

\* The manifests of the whole-pipeline specification: every shape get_deps
\* rejects, and every table of up to MaxDeps named dependencies.
PipelineManifests ==
    ShapelessManifests
    \cup ManifestsWith(TablesOver(KeysBetween(2, MaxDeps + 1),
                                  {TomlString("1.0"), TomlInteger(1)}))

\* Nothing downloaded, extracted or written yet.
Fresh ==
    /\ downloaded_deps = <<>>
    /\ cur = 0
    /\ winmd_files = <<>>
    /\ widx = 0
    /\ dirs = {}
    /\ files = <<>>
    /\ fs_log = <<>>
    /\ result = None
    /\ failures = <<>>

Init ==
    /\ os \in Platforms
    /\ cargo_toml \in {MissingFile, FileOf(None)}
                      \cup {FileOf(Some(m)) : m \in PipelineManifests}
    /\ pc = "read"
    /\ deps = <<>>
    /\ fut = <<>>
    /\ gets = {}
    /\ Fresh

\* perform returns r (or unwinds with the panic r).
Exit(r) ==
    /\ pc' = "exit"
    /\ result' = r

\* std::fs::read("Cargo.toml").map_err(|_| Error::NoCargoToml)?
ReadCargoToml ==
    /\ pc = "read"
    /\ IF cargo_toml.type = "Missing"
       THEN Exit(Err(NoCargoToml))
       ELSE pc' = "parse" /\ UNCHANGED result
    /\ UNCHANGED <<os, cargo_toml, deps, fut, gets, downloaded_deps, cur,
                   winmd_files, widx, dirs, files, fs_log, failures>>

\* Manifest::from_slice(&bytes).map_err(|_| Error::MalformedManifest)?
ParseManifest ==
    /\ pc = "parse"
    /\ IF cargo_toml.parsed.type = "None"
       THEN Exit(Err(MalformedManifest))
       ELSE pc' = "get_deps" /\ UNCHANGED result
    /\ UNCHANGED <<os, cargo_toml, deps, fut, gets, downloaded_deps, cur,
                   winmd_files, widx, dirs, files, fs_log, failures>>

\* let deps = get_deps(manifest)?
GetDeps ==
    /\ pc = "get_deps"
    /\ LET r == get_deps(cargo_toml.parsed.v)
       IN  IF r.tag = "Ok"
           THEN deps' = r.val /\ pc' = "download" /\ UNCHANGED result
           ELSE Exit(r) /\ UNCHANGED deps
    /\ UNCHANGED <<os, cargo_toml, fut, gets, downloaded_deps, cur,
                   winmd_files, widx, dirs, files, fs_log, failures>>

\* The loop of perform moves on to downloaded_deps[i], or perform returns
\* Ok(()) after the last one.
NextDep(all, i) ==
    IF i > Len(all)
    THEN Exit(Ok(<<>>)) /\ UNCHANGED cur
    ELSE pc' = "winmds" /\ cur' = i /\ UNCHANGED result

\* download_dependencies(deps) up to block_on: one future per dependency,
\* none polled yet; with no dependency the join is ready at once.
StartDownloads ==
    /\ pc = "download"
    /\ fut' = [i \in 1..Len(deps) |-> Unpolled]
    /\ IF deps = <<>>
       THEN NextDep(<<>>, 1) /\ UNCHANGED downloaded_deps
       ELSE pc' = "block_on" /\ UNCHANGED <<result, cur, downloaded_deps>>
    /\ UNCHANGED <<os, cargo_toml, deps, gets, winmd_files, widx, dirs, files,
                   fs_log, failures>>

\* What download_dependencies and `?` make of the poll of future i that came
\* back with o.
Joined(i, o) ==
    LET j == try_join_all(deps, fut, i, o)
    IN  /\ failures' = IF o.tag = "Err"
                       THEN Append(failures, [fut |-> i, err |-> o.err])
                       ELSE failures
        /\ fut' = j.futs
        /\ IF j.out.tag = "Pending"
           THEN UNCHANGED <<pc, result, downloaded_deps, cur>>
           ELSE IF j.out.tag = "Ok"
           THEN downloaded_deps' = j.out.val /\ NextDep(j.out.val, 1)
           ELSE Exit(j.out) /\ UNCHANGED <<downloaded_deps, cur>>

\* A first poll that awaits the downloads one after the other: future i is
\* started only when the futures before it are ready.
FirstPollInOrder(i) ==
    /\ pc = "block_on"
    /\ fut[i].st = "unpolled"
    /\ \A k \in 1..(i - 1) : fut[k].st = "ready"
    /\ \E n \in RedirectRuns :
         LET f == [fut[i] EXCEPT !.redirects = n]
             o == try_download(f, url(deps[i]), RedirectBudget)
         IN  /\ Joined(i, o)
             /\ gets' = IF o.tag = "Pending" THEN gets \cup {o.val.url} ELSE gets
    /\ UNCHANGED <<os, cargo_toml, deps, winmd_files, widx, dirs, files, fs_log>>

\* The first poll of future i: dep.download() calls try_download(self.url(), 5).
FirstPoll(i) ==
    /\ pc = "block_on"
    /\ fut[i].st = "unpolled"
    /\ \E n \in RedirectRuns :
         LET f == [fut[i] EXCEPT !.redirects = n]
             o == try_download(f, url(deps[i]), RedirectBudget)
         IN  /\ Joined(i, o)
             /\ gets' = IF o.tag = "Pending" THEN gets \cup {o.val.url} ELSE gets
    /\ UNCHANGED <<os, cargo_toml, deps, winmd_files, widx, dirs, files, fs_log>>

\* The registry answers the request future i is awaiting.
Respond(i) ==
    /\ pc = "block_on"
    /\ fut[i].st = "awaiting"
    /\ \E res \in Answers(fut[i]) :
         fut' = [fut EXCEPT ![i] = [@ EXCEPT !.st = "arrived", !.resp = res]]
    /\ UNCHANGED <<os, cargo_toml, pc, deps, gets, downloaded_deps, cur,
                   winmd_files, widx, dirs, files, fs_log, result, failures>>

\* Future i is polled with the answer to its request.
Poll(i) ==
    /\ pc = "block_on"
    /\ fut[i].st = "arrived"
    /\ LET o == on_response(fut[i], fut[i].resp)
       IN  /\ Joined(i, o)
           /\ gets' = IF o.tag = "Pending" THEN gets \cup {o.val.url} ELSE gets
    /\ UNCHANGED <<os, cargo_toml, deps, winmd_files, widx, dirs, files, fs_log>>

\* let winmds = dep.winmds()?
Winmds ==
    /\ pc = "winmds"
    /\ LET r == winmds(downloaded_deps[cur].bytes, os)
       IN  IF r.tag = "Ok"
           THEN winmd_files' = r.val /\ pc' = "create_dir" /\ UNCHANGED result
           ELSE Exit(r) /\ UNCHANGED winmd_files
    /\ UNCHANGED <<os, cargo_toml, deps, fut, gets, downloaded_deps, cur, widx,
                   dirs, files, fs_log, failures>>

\* The loop over winmds moves on to winmds[i], or the loop over the
\* dependencies moves on after the last one.
NextWinmd(i) ==
    IF i > Len(winmd_files)
    THEN NextDep(downloaded_deps, cur + 1) /\ UNCHANGED widx
    ELSE pc' = "write" /\ widx' = i /\ UNCHANGED <<cur, result>>

\* std::fs::create_dir_all(&dep_directory).unwrap()
CreateDir ==
    /\ pc = "create_dir"
    /\ LET dir == dep_directory(downloaded_deps[cur].dependency)
       IN  \/ /\ dirs' = create_dir_all(dirs, dir)
              /\ fs_log' = Append(fs_log, <<"create_dir_all", dir>>)
              /\ NextWinmd(1)
           \/ /\ Exit(Panic("create_dir_all(..).unwrap()"))
              /\ UNCHANGED <<dirs, fs_log, cur, widx>>
    /\ UNCHANGED <<os, cargo_toml, deps, fut, gets, downloaded_deps,
                   winmd_files, files, failures>>

\* A write that, when it fails, removes the files of the dependency written
\* so far before the run ends.
WriteWinmdRollingBack ==
    /\ pc = "write"
    /\ LET dir == dep_directory(downloaded_deps[cur].dependency)
           winmd == winmd_files[widx]
           path == Append(dir, winmd.name)
       IN  \/ /\ files' = fs_write(files, path, winmd.contents)
              /\ fs_log' = Append(fs_log, <<"write", path>>)
              /\ NextWinmd(widx + 1)
           \/ /\ Exit(Panic("winmd.write(..).unwrap()"))
              /\ files' = [q \in {q \in DOMAIN files : SubSeq(q, 1, Len(dir)) # dir}
                             |-> files[q]]
              /\ UNCHANGED <<fs_log, cur, widx>>
    /\ UNCHANGED <<os, cargo_toml, deps, fut, gets, downloaded_deps,
                   winmd_files, dirs, failures>>

\* winmd.write(&dep_directory).unwrap()
WriteWinmd ==
    /\ pc = "write"
    /\ LET dir == dep_directory(downloaded_deps[cur].dependency)
           winmd == winmd_files[widx]
           path == Append(dir, winmd.name)
       IN  \/ /\ files' = fs_write(files, path, winmd.contents)
              /\ fs_log' = Append(fs_log, <<"write", path>>)
              /\ NextWinmd(widx + 1)
           \/ /\ Exit(Panic("winmd.write(..).unwrap()"))
              /\ UNCHANGED <<files, fs_log, cur, widx>>
    /\ UNCHANGED <<os, cargo_toml, deps, fut, gets, downloaded_deps,
                   winmd_files, dirs, failures>>

Next ==
    \/ ReadCargoToml
    \/ ParseManifest
    \/ GetDeps
    \/ StartDownloads
    \/ \E i \in Futures : FirstPoll(i)
    \/ \E i \in Futures : Respond(i)
    \/ \E i \in Futures : Poll(i)
    \/ Winmds
    \/ CreateDir
    \/ WriteWinmd

Spec == Init /\ [][Next]_vars

\* ------------------------------------------------- download_dependencies

\* The manifests get_deps accepts: every table of up to MaxDeps named
\* dependencies.
DeclaringManifests ==
    ManifestsWith(TablesOver(KeysBetween(2, MaxDeps + 1), {TomlString("1.0")}))

\* perform has read the dependencies of the manifest and is about to call
\* download_dependencies (in which the platform plays no part).
InitDownloads ==
    /\ os = "windows"
    /\ cargo_toml \in {FileOf(Some(m)) : m \in DeclaringManifests}
    /\ pc = "download"
    /\ deps = get_deps(cargo_toml.parsed.v).val
    /\ fut = <<>>
    /\ gets = {}
    /\ Fresh

\* A step of one of the futures of download_dependencies.
DownloadStep == \E i \in Futures : FirstPoll(i) \/ Respond(i) \/ Poll(i)

NextDownloads ==
    \/ StartDownloads
    \/ \E i \in Futures : FirstPoll(i)
    \/ \E i \in Futures : Respond(i)
    \/ \E i \in Futures : Poll(i)

SpecDownloads == InitDownloads /\ [][NextDownloads]_vars

\* download_dependencies when every request is answered (by a response or a
\* transport error) and the runtime polls the futures it blocks on: a step of
\* a download that stays possible is taken.
SpecAnswered == SpecDownloads /\ WF_vars(DownloadStep)

\* ---------------------------------------------- get_deps on bounded tables

\* The values of a dependency table: versions (the empty string among them)
\* and values that are no string.
TableValues ==
    {TomlString("1.0"), TomlString("2.0"), TomlString(""), TomlInteger(1),
     TomlTable(<<>>)}

GetDepsManifests ==
    ShapelessManifests
    \cup ManifestsWith(TablesOver(KeysBetween(1, MaxTable), TableValues))

\* perform has read and parsed a manifest and is about to call get_deps.
InitGetDeps ==
    /\ os \in Platforms
    /\ cargo_toml \in {FileOf(Some(m)) : m \in GetDepsManifests}
    /\ pc = "get_deps"
    /\ deps = <<>>
    /\ fut = <<>>
    /\ gets = {}
    /\ Fresh

NextGetDeps == GetDeps

SpecGetDeps == InitGetDeps /\ [][NextGetDeps]_vars

\* ------------------------------------------------ winmds on bounded archives

\* The entries of the archives: where the entry is stored, its file name,
\* whether its local header opens and whether its contents can be read.
EntryShapes ==
    [dirs : {<<"lib", "uap10.0">>, <<"other">>, <<"lib", "uap10.0", "x86">>},
     file : {<<"foo", "winmd">>, <<"bar", "dll">>},
     header : BOOLEAN,
     readable : BOOLEAN]

\* The archive with the given entries; entry i holds the contents <<i>>.
ArchiveOf(shapes) ==
    Archive([i \in 1..Len(shapes) |->
               Entry(shapes[i].dirs, shapes[i].file, shapes[i].header,
                     IF shapes[i].readable THEN Data(<<i>>) ELSE CorruptData)])

Archives ==
    {NotAnArchive}
    \cup {ArchiveOf(shapes) : shapes \in UNION {[1..n -> EntryShapes] : n \in 0..MaxEntries}}

\* perform has downloaded the one dependency of the manifest and is about to
\* call winmds on what it downloaded.
InitWinmds ==
    LET dep == Dependency("Acme.Widgets", "1.0")
    IN  /\ os \in Platforms
        /\ cargo_toml = FileOf(Some(Manifest(Package(MetadataWith(
                            TomlTable(<<<<dep.name, TomlString(dep.version)>>>>))))))
        /\ pc = "winmds"
        /\ deps = <<dep>>
        /\ gets = {url(dep)}
        /\ \E bytes \in Archives :
             /\ fut = <<Future("ready", url(dep), RedirectBudget, 0,
                               Response(200, None, bytes), bytes, None)>>
             /\ downloaded_deps = <<DownloadedDependency(dep, bytes)>>
        /\ cur = 1
        /\ winmd_files = <<>>
        /\ widx = 0
        /\ dirs = {}
        /\ files = <<>>
        /\ fs_log = <<>>
        /\ result = None
        /\ failures = <<>>

NextWinmds == Winmds

SpecWinmds == InitWinmds /\ [][NextWinmds]_vars

\* ------------------------------------------- materializing a second time

\* The loop of perform over the winmds of one dependency, from winmds[i] on,
\* when every write succeeds: the files it leaves.
RECURSIVE WriteAll(_, _, _, _)
WriteAll(fs, dir, ws, i) ==
    IF i > Len(ws) THEN fs
    ELSE WriteAll(fs_write(fs, Append(dir, ws[i].name), ws[i].contents), dir, ws, i + 1)

\* The archives winmds extracts.
Extractable(platform) == {bytes \in Archives : winmds(bytes, platform).tag = "Ok"}

\* perform has downloaded the one dependency of the manifest and is about to
\* call winmds on what it downloaded; an earlier run on the same archive has
\* left the directory of the dependency and its files.
InitRematerialize ==
    LET dep == Dependency("Acme.Widgets", "1.0")
        dir == dep_directory(dep)
    IN  /\ os \in Platforms
        /\ cargo_toml = FileOf(Some(Manifest(Package(MetadataWith(
                            TomlTable(<<<<dep.name, TomlString(dep.version)>>>>))))))
        /\ pc = "winmds"
        /\ deps = <<dep>>
        /\ gets = {url(dep)}
        /\ \E bytes \in Extractable(os) :
             /\ fut = <<Future("ready", url(dep), RedirectBudget, 0,
                               Response(200, None, bytes), bytes, None)>>
             /\ downloaded_deps = <<DownloadedDependency(dep, bytes)>>
             /\ dirs = create_dir_all({}, dir)
             /\ files = WriteAll(<<>>, dir, winmds(bytes, os).val, 1)
        /\ cur = 1
        /\ winmd_files = <<>>
        /\ widx = 0
        /\ fs_log = <<>>
        /\ result = None
        /\ failures = <<>>

NextRematerialize ==
    \/ Winmds
    \/ CreateDir
    \/ WriteWinmd

SpecRematerialize == InitRematerialize /\ [][NextRematerialize]_vars

\* ================================================================== claims

\* Future i has returned from dep.download().
Returned(i) == fut[i].st \in {"ready", "failed"}

\* Future i was answered a 200 whose body could be read.
Answered200(i) ==
    /\ fut[i].resp.type = "Response"
    /\ fut[i].resp.status = 200
    /\ fut[i].resp.body.type # "UnreadableBody"

\* The GET requests future i has sent.
Requests(i) == IF fut[i].st = "unpolled" THEN 0 ELSE Hops(fut[i].url) + 1

\* ---- C1

\* C1, as stated: a download whose requests the registry answers with five
\* redirects and then a 200 does not run out of redirects: it sends its sixth
\* request and, answered 200, returns the body of that answer.
C1_FiveRedirectsThenOk ==
    \A i \in DOMAIN fut :
        fut[i].redirects = 5 /\ Returned(i) =>
            /\ fut[i].err # DownloadError(TooManyRedirects)
            /\ Requests(i) = 6
            /\ (Answered200(i) => fut[i].st = "ready" /\ fut[i].bytes = fut[i].resp.body)

\* C1, amended: a download whose requests the registry answers with four
\* redirects and then a 200 succeeds with the body of that 200, the answer to
\* its fifth request; it does not run out of redirects.
C1_FourRedirectsThenOk ==
    \A i \in DOMAIN fut :
        fut[i].redirects = 4 /\ Returned(i) =>
            /\ fut[i].err # DownloadError(TooManyRedirects)
            /\ Requests(i) = 5
            /\ (Answered200(i) => fut[i].st = "ready" /\ fut[i].bytes = fut[i].resp.body)

C1_Witness ==
    \E i \in DOMAIN fut :
        /\ fut[i].redirects = 4
        /\ fut[i].st = "ready"
        /\ Requests(i) = 5
        /\ fut[i].bytes = fut[i].resp.body

\* ---- C2

\* C2: a download whose requests the registry answers with redirects six or
\* more times in a row never returns a payload; when it returns, it returns
\* the DownloadError "Too many redirects".
C2_SixRedirectsFail ==
    \A i \in DOMAIN fut :
        fut[i].redirects >= 6 =>
            /\ fut[i].st \notin {"ready", "panicked"}
            /\ (Returned(i) => fut[i].err = DownloadError(TooManyRedirects))

C2_Witness ==
    \E i \in DOMAIN fut :
        /\ fut[i].redirects >= 6
        /\ fut[i].st = "failed"
        /\ pc = "exit"
        /\ result = Err(DownloadError(TooManyRedirects))

\* ---- C3

\* C3: once a download has failed, no directory is created and no file is
\* written, whatever the other downloads did.
C3_AllOrNothing ==
    failures # <<>> => fs_log = <<>> /\ dirs = {} /\ DOMAIN files = {}

C3_Witness ==
    /\ pc = "exit"
    /\ failures # <<>>
    /\ \E j \in DOMAIN fut : fut[j].st = "ready" /\ fut[j].bytes.type = "Zip"
    /\ fs_log = <<>>

\* ---- C4

\* The dependency an error value names: a dependency field, or the URL of a
\* request that went to the package URL of the dependency itself.
Names(e, dep) ==
    \/ "dependency" \in DOMAIN e /\ e.dependency = dep.name
    \/ /\ "url" \in DOMAIN e.cause
       /\ e.cause.url = url(dep)

\* C4: the error perform returns for a failed download names the dependency
\* whose download failed, together with the cause.
C4_ErrorNamesDependency ==
    pc = "exit" /\ failures # <<>> =>
        /\ result.tag = "Err"
        /\ result.err.kind = "DownloadError"
        /\ Names(result.err, deps[failures[1].fut])

\* ---- C5

\* Future j holds an answer that fails its download once it is polled.
FailingAnswer(j) ==
    /\ fut[j].st = "arrived"
    /\ on_response(fut[j], fut[j].resp).tag = "Err"

\* C5: a batch in which a download has failed returns the error of the
\* download that failed first: no payloads, and no later failure's error.
C5_FirstFailureWins ==
    failures # <<>> =>
        /\ downloaded_deps = <<>>
        /\ pc \in {"block_on", "exit"}
        /\ (pc = "exit" => result = Err(failures[1].err))

\* Two downloads of the batch fail (the answer that fails the second has
\* arrived) and the batch has returned the error of the first.
C5_Witness ==
    /\ pc = "exit"
    /\ Len(failures) = 1
    /\ result = Err(failures[1].err)
    /\ \E j \in DOMAIN fut :
          /\ j # failures[1].fut
          /\ FailingAnswer(j)
          /\ on_response(fut[j], fut[j].resp).err # failures[1].err

\* ---- C6

\* The value Cargo.toml holds under package.metadata.nuget_dependencies, None
\* when the file, the manifest, the package section, the metadata table or
\* the key is missing.
Declared ==
    IF cargo_toml.type = "Bytes" /\ cargo_toml.parsed.type = "Some"
    THEN LET package == cargo_toml.parsed.v.package
         IN  IF package.type = "Package" /\ package.metadata.type = "Table"
             THEN Lookup(package.metadata.entries, "nuget_dependencies")
             ELSE None
    ELSE None

IsString(entry) == entry[2].type = "String"

\* Cargo.toml declares a table of dependencies whose values are all strings.
WellFormed ==
    /\ Declared.type = "Table"
    /\ \A k \in 1..Len(Declared.entries) : IsString(Declared.entries[k])

\* C6: a run whose Cargo.toml is missing, unparsable or without a well-formed
\* dependency table sends no GET, and a run that ended with NoCargoToml or
\* MalformedManifest has sent none.
C6_NoRequestOnManifestError ==
    /\ ~WellFormed => gets = {}
    /\ pc = "exit" /\ result \in {Err(NoCargoToml), Err(MalformedManifest)} => gets = {}

\* A table with a string entry, which could have been fetched, and an entry
\* that is no string: the run ended MalformedManifest without a request.
C6_Witness ==
    /\ pc = "exit"
    /\ result = Err(MalformedManifest)
    /\ Declared.type = "Table"
    /\ \E k \in 1..Len(Declared.entries) : IsString(Declared.entries[k])
    /\ gets = {}

\* ---- C7

\* C7: get_deps, given a dependency table with an entry that is no string,
\* returns MalformedManifest and no dependency.
C7_NonStringRejected ==
    /\ pc # "get_deps"
    /\ Declared.type = "Table"
    /\ \E k \in 1..Len(Declared.entries) : ~IsString(Declared.entries[k])
    => /\ pc = "exit"
       /\ result = Err(MalformedManifest)
       /\ deps = <<>>

\* The entry that is no string comes after two that are.
C7_Witness ==
    /\ pc = "exit"
    /\ Declared.type = "Table"
    /\ Len(Declared.entries) = 3
    /\ IsString(Declared.entries[1])
    /\ IsString(Declared.entries[2])
    /\ ~IsString(Declared.entries[3])
    /\ result = Err(MalformedManifest)
    /\ deps = <<>>

\* ---- C8

\* C8: get_deps, given a dependency table whose values are all strings,
\* returns one Dependency per entry, named by the key and versioned by the
\* value, and nothing else.
C8_OnePerEntry ==
    pc # "get_deps" /\ WellFormed =>
        LET entries == Declared.entries
            of(k) == Dependency(entries[k][1], entries[k][2].s)
        IN  /\ pc = "download"
            /\ result = None
            /\ Len(deps) = Len(entries)
            /\ \A k \in 1..Len(entries) :
                   Cardinality({i \in 1..Len(deps) : deps[i] = of(k)}) = 1
            /\ \A i \in 1..Len(deps) : \E k \in 1..Len(entries) : deps[i] = of(k)

C8_Witness ==
    /\ pc = "download"
    /\ WellFormed
    /\ Len(deps) = 3
    /\ deps[1].version # deps[2].version
    /\ deps[3].version = ""

\* ---- C9

\* The archive winmds is applied to.
Zip == downloaded_deps[cur].bytes

\* The rule of the claim: the extension is winmd and the entry lies in
\* lib/uap10.0.
InWinmdDir(entry) ==
    /\ Len(entry.file) = 2
    /\ entry.file[2] = "winmd"
    /\ entry.dirs = <<"lib", "uap10.0">>

Intact(entry) == entry.header /\ entry.data.type = "Data"

\* C9: winmds, given an archive whose entries can all be read, returns the
\* entries with extension winmd in lib/uap10.0, each under its file name
\* with its contents, and no other.
C9_SelectionRule ==
    /\ pc # "winmds"
    /\ Zip.type = "Zip"
    /\ \A k \in 1..Len(Zip.entries) : Intact(Zip.entries[k])
    => LET sel == SelectSeq(Zip.entries, InWinmdDir)
       IN  /\ pc = "create_dir"
           /\ winmd_files = [k \in 1..Len(sel) |-> Winmd(sel[k].file, sel[k].data.bytes)]

\* ---- C10

\* C10: winmds, given an archive that opens and has one corrupt entry (its
\* header or its contents), returns Ok with the other entries it selects.
C10_CorruptEntrySkipped ==
    /\ pc # "winmds"
    /\ Zip.type = "Zip"
    /\ Cardinality({k \in 1..Len(Zip.entries) : ~Intact(Zip.entries[k])}) = 1
    => LET sel == SelectSeq(Zip.entries,
                      LAMBDA e : Intact(e) /\ Selected(sanitized_name(e, os)))
       IN  /\ pc = "create_dir"
           /\ winmd_files = [k \in 1..Len(sel) |-> Winmd(sel[k].file, sel[k].data.bytes)]

\* ---- C11

\* The bytes downloaded for dependency j do not open as an archive.
Unopenable(j) == downloaded_deps[j].bytes.type # "Zip"

\* The run has created the directory of dependency j or written a file in it.
Touched(j) ==
    LET dir == dep_directory(downloaded_deps[j].dependency)
    IN  \E n \in DOMAIN fs_log : SubSeq(fs_log[n][2], 1, Len(dir)) = dir

\* The directory of dependency j exists and holds every file winmds returns
\* for it, with its contents.
Materialized(j) ==
    LET dir == dep_directory(downloaded_deps[j].dependency)
        r == winmds(downloaded_deps[j].bytes, os)
    IN  /\ dir \in dirs
        /\ r.tag = "Ok"
        /\ \A n \in DOMAIN r.val :
             /\ Append(dir, r.val[n].name) \in DOMAIN files
             /\ files[Append(dir, r.val[n].name)] = r.val[n].contents

\* C11: when the archive of one dependency cannot be opened, perform returns
\* Ok with every other dependency (whose archive extracts) extracted and
\* written to its directory.
C11_OnlyThatDependencyAborted ==
    /\ pc = "exit"
    /\ result.tag # "Panic"
    /\ \E j \in DOMAIN downloaded_deps : Unopenable(j)
    =>  \A k \in DOMAIN downloaded_deps :
            winmds(downloaded_deps[k].bytes, os).tag = "Ok" => Materialized(k)

\* What perform does with an archive that cannot be opened: the run ends
\* there. The loop never gets past that dependency: perform returns the error
\* of winmds when it reaches it, nothing of that dependency or of a later one
\* is created or written, and the dependencies before it stay as written.
C11_ContainerFailureAborts ==
    \A j \in DOMAIN downloaded_deps :
        Unopenable(j) =>
            /\ cur <= j
            /\ \A k \in j..Len(downloaded_deps) : ~Touched(k)
            /\ (cur = j =>
                  /\ pc \in {"winmds", "exit"}
                  /\ (pc = "exit" => result = Err(Other("ZipError")))
                  /\ \A k \in 1..(j - 1) : Materialized(k))

\* ---- C12

\* C12: a run of perform that has ended has returned: Ok(()), or an Error
\* value. No answer of the registry, archive or file-system failure ends it
\* any other way.
C12_ReturnsOkOrError ==
    pc = "exit" => result.tag \in {"Ok", "Err"}

\* ---- C13

\* winmds has been called on dependency j and has returned its files.
Extracted(j) ==
    /\ winmds(downloaded_deps[j].bytes, os).tag = "Ok"
    /\ \/ j < cur
       \/ j = cur /\ pc \in {"create_dir", "write", "exit"}

\* Entry n of fs_log is an operation of dependency j: the creation of its
\* directory, or, after that, the write of one of its extracted files.
OperationOf(n, j) ==
    LET dir == dep_directory(downloaded_deps[j].dependency)
        made == <<"create_dir_all", dir>>
    IN  \/ fs_log[n] = made
        \/ /\ fs_log[n][1] = "write"
           /\ \E m \in 1..(n - 1) : fs_log[m] = made
           /\ \E w \in DOMAIN winmds(downloaded_deps[j].bytes, os).val :
                fs_log[n][2] = Append(dir, winmds(downloaded_deps[j].bytes, os).val[w].name)

\* C13: extraction and writing start only when every download has completed
\* (the bytes at hand are the bytes each download returned), and every
\* file-system operation belongs to a dependency that has been extracted.
C13_DownloadExtractWrite ==
    /\ pc \in {"winmds", "create_dir", "write"} \/ fs_log # <<>> =>
          /\ \A i \in DOMAIN fut : fut[i].st = "ready"
          /\ Len(downloaded_deps) = Len(deps)
          /\ \A j \in DOMAIN downloaded_deps :
                downloaded_deps[j].bytes = fut[j].bytes
    /\ \A n \in DOMAIN fs_log :
          \E j \in DOMAIN downloaded_deps : Extracted(j) /\ OperationOf(n, j)

C13_Witness ==
    /\ pc = "write"
    /\ cur = 2
    /\ Len(deps) = 2
    /\ \A i \in DOMAIN fut : fut[i].st = "ready"
    /\ \E n \in DOMAIN fs_log : fs_log[n][1] = "write" /\ OperationOf(n, 1)
    /\ \E n \in DOMAIN fs_log : fs_log[n][1] = "write" /\ OperationOf(n, 2)

\* ---- C14

\* C14: while the batch is running, the download of dependency i can take its
\* next step (send its first request, receive the answer it awaits, handle the
\* answer that arrived) whatever the other downloads are doing.
C14_DownloadsIndependent ==
    pc = "block_on" =>
        \A i \in DOMAIN fut :
            /\ fut[i].st = "unpolled" => ENABLED FirstPoll(i)
            /\ fut[i].st = "awaiting" => ENABLED Respond(i)
            /\ fut[i].st = "arrived" => ENABLED Poll(i)

\* A download has completed while one listed before it still awaits the
\* answer to its first request.
C14_Witness ==
    /\ pc = "block_on"
    /\ \E i, j \in DOMAIN fut :
         /\ j < i
         /\ fut[i].st = "ready"
         /\ fut[j].st = "awaiting"
         /\ Requests(j) = 1

\* ---- C15

\* The directories and files one materialization of the downloaded dependency
\* leaves on an empty file system.
MaterializedOnce ==
    LET dir == dep_directory(downloaded_deps[1].dependency)
    IN  [dirs |-> create_dir_all({}, dir),
         files |-> WriteAll(<<>>, dir, winmds(downloaded_deps[1].bytes, os).val, 1)]

\* C15: with the directory of a dependency and its files in place from an
\* earlier materialization, creating the directory and writing each file
\* again can succeed, and a run that has written them all again leaves the
\* same directories and the same files with the same contents.
C15_Idempotent ==
    /\ pc = "create_dir" => ENABLED (CreateDir /\ (pc' # "exit" \/ result' = Ok(<<>>)))
    /\ pc = "write" => ENABLED (WriteWinmd /\ (pc' # "exit" \/ result' = Ok(<<>>)))
    /\ pc = "exit" /\ result = Ok(<<>>) =>
          /\ dirs = MaterializedOnce.dirs
          /\ files = MaterializedOnce.files

C15_Witness ==
    /\ pc = "exit"
    /\ result = Ok(<<>>)
    /\ Len(fs_log) = 3
    /\ fs_log[3][1] = "write"
    /\ fs_log[3][2] \in DOMAIN files
    /\ dirs = MaterializedOnce.dirs
    /\ files = MaterializedOnce.files

\* ---- C16

\* C16: every dependency get_deps returns has a name and a version that are
\* not empty.
C16_NonEmptyFields ==
    \A i \in DOMAIN deps : deps[i].name # "" /\ deps[i].version # ""

\* ---- C17

\* The write of a file has failed.
WriteFailed == result = Panic("winmd.write(..).unwrap()")

\* C17: the step in which the write of a file fails ends the run and leaves
\* every directory and every file written before it as it was, and no step
\* follows the end of the run: nothing more is written.
C17_WriteFailureStopsAndKeeps ==
    [][/\ pc # "exit"
       /\ pc = "write" /\ WriteFailed' =>
             /\ pc' = "exit"
             /\ UNCHANGED <<dirs, files, fs_log>>]_vars

\* The write of the second file of the second dependency has failed, with
\* the files written before it in place.
C17_Witness ==
    /\ pc = "exit"
    /\ WriteFailed
    /\ cur = 2
    /\ widx = 2
    /\ Len(fs_log) = 5
    /\ Materialized(1)
    /\ Append(dep_directory(downloaded_deps[2].dependency), winmd_files[1].name)
          \in DOMAIN files

\* ---- C18

\* Future i has handled the answer to its last request.
Handled(i) == fut[i].resp.type # "None" /\ fut[i].st # "arrived"

\* C18: a download that has handled an answer has classified it: a 200 made
\* its body the payload, a 302 made it send a new GET (to the Location URL)
\* whose answer it awaits, any other status ended it with a DownloadError
\* carrying the status, and a transport error (on the GET or on reading the
\* body) ended it with a DownloadError carrying the cause.
C18_Classification ==
    \A i \in DOMAIN fut :
        Handled(i) =>
            LET f == fut[i]
            IN  IF f.resp.type = "TransportError"
                THEN f.st = "failed" /\ f.err = DownloadError(ReqwestError(f.url))
                ELSE IF f.resp.status = 200
                THEN IF f.resp.body.type = "UnreadableBody"
                     THEN f.st = "failed" /\ f.err = DownloadError(ReqwestError(f.url))
                     ELSE f.st = "ready" /\ f.bytes = f.resp.body
                ELSE IF f.resp.status = 302
                THEN f.st = "awaiting" /\ f.url \in gets
                ELSE f.st = "failed" /\ f.err = DownloadError(NonSuccessful(f.resp.status))

\* ---- C19

\* C19: when every request is answered, no batch of downloads stays blocked
\* for ever (time and again perform is not in block_on: a batch that has
\* started comes to an end), and no download ever sends more than five GET
\* requests.
C19_BatchEnds ==
    /\ [](\A i \in DOMAIN fut : Requests(i) <= 5)
    /\ []<>(pc # "block_on")

\* The batch has ended with a download that sent its five requests and was
\* redirected each time.
C19_Witness ==
    /\ pc # "block_on"
    /\ \E i \in DOMAIN fut :
         /\ Requests(i) = 5
         /\ fut[i].resp = Response(302, Some(Location(fut[i].url)), None)
         /\ fut[i].st = "failed"

\* ---- C20

\* C20: the downloaded dependencies of a batch that succeeded are one per
\* declared dependency: the j-th pairs the j-th dependency with the body of
\* the answer that ended the chain of requests for that dependency.
C20_PayloadsPaired ==
    downloaded_deps # <<>> =>
        /\ Len(downloaded_deps) = Len(deps)
        /\ \A j \in DOMAIN deps :
              /\ downloaded_deps[j].dependency = deps[j]
              /\ Origin(fut[j].url) = deps[j]
              /\ Answered200(j)
              /\ downloaded_deps[j].bytes = fut[j].resp.body

\* Two downloads with chains of different lengths have both succeeded, each
\* with the archive of its own package.
C20_Witness ==
    /\ Len(downloaded_deps) = 2
    /\ fut[1].redirects = 4
    /\ fut[2].redirects = 0
    /\ \A j \in {1, 2} : downloaded_deps[j].bytes = SampleArchive(deps[j])
    /\ downloaded_deps[1].bytes # downloaded_deps[2].bytes

====
